---- MODULE Spec2Model ----
(***************************************************************************)
(* Model of app/core/main.py of cerberus: the experiment filter, the task  *)
(* enumeration generator, the identifier scheme and the main / sequential  *)
(* orchestration loop with its signal handlers.                            *)
(***************************************************************************)
EXTENDS Integers, Sequences, FiniteSets, TLC

(* ------------------------------ bounds -------------------------------- *)
MaxBench == 3
MaxStart == 2
MaxEnd == 2
MaxTaskProfiles == 2
MaxContainerProfiles == 2
MaxRunIndex == 1
MaxRuns == 2
MaxSignals == 2

(* --------------------------- small input sets ------------------------- *)
Subjects == {"s1", "s2"}
BugIds == {"b1", "b2"}
BugIdListChoices == SUBSET BugIds
BugIndexListChoices == {{}, {1}, {2, 3}}
SkipIndexListChoices == {{}, {"2"}, {"02"}}
SubjectNameChoices == {"", "s1"}

VARIABLES
    machine,          \* which part of the program this behaviour exercises
    experiment_list,  \* benchmark.get_list()
    bug_id_list,      \* values.bug_id_list
    bug_index_list,   \* values.bug_index_list
    skip_index_list,  \* values.skip_index_list
    start_index,      \* values.start_index
    end_index,        \* values.end_index
    subject_name,     \* values.subject_name
    flt_pc,           \* "start" | "filtered" | "refiltered"
    filtered_list,    \* list returned by filter_experiment_list
    examined,         \* indices visited by the for loop of the call
    refiltered,       \* list returned when the result is filtered again
    task_profile_id_list,       \* values.task_profile_id_list
    container_profile_id_list,  \* values.container_profile_id_list
    tool_list,        \* get_tools(): references to the loaded tool objects
    tool_tag,         \* values.tool_tag
    heap,             \* the objects: heap[r] is the object behind reference r
    gen,              \* frame of the construct_task_list generator
    yielded,          \* the (TaskConfig, TaskData) pairs yielded so far
    id_pc,            \* "start" | "made"
    id_args,          \* the entity fields of two runs of one enumeration
    id_keys,          \* the identifiers create_task_identifier returned
    pc,               \* position of main (and of process_tasks inside it)
    args,             \* parsed_args and the parallel_mode of the config file
    use_parallel,     \* values.use_parallel
    runs,             \* values.runs
    only_setup,       \* values.only_setup
    cpus,             \* values.cpus
    is_error,         \* local is_error of main
    iteration,        \* module-level iteration
    pt,               \* frame of process_tasks
    propagate,        \* an exception is pending while the finally block runs
    log               \* calls made to the collaborators and signals delivered

filterCfg == <<experiment_list, bug_id_list, bug_index_list, skip_index_list,
               start_index, end_index, subject_name>>
filterVars == <<flt_pc, filtered_list, examined, refiltered>>
enumCfg == <<task_profile_id_list, container_profile_id_list, tool_list, tool_tag>>
enumVars == <<heap, gen, yielded>>
idVars == <<id_pc, id_args, id_keys>>
mainVars == <<pc, args, use_parallel, runs, only_setup, cpus, is_error, iteration, pt,
              propagate, log>>
vars == <<machine, filterCfg, filterVars, enumCfg, enumVars, idVars, mainVars>>

(* ----------------------------- str() ---------------------------------- *)
Digits == <<"0", "1", "2", "3", "4", "5", "6", "7", "8", "9">>

RECURSIVE Str(_)
Str(n) == IF n < 10 THEN Digits[n + 1]
          ELSE Str(n \div 10) \o Digits[(n % 10) + 1]

(* --------------------------- benchmark lists -------------------------- *)
\* an experiment item: its id is its 1-based position in the benchmark
Item(i, s, b) == [id |-> i, subject |-> s, bug_id |-> b]

BenchmarkLists ==
    UNION {{[i \in 1..n |-> Item(i, f[i][1], f[i][2])] :
                f \in [1..n -> Subjects \X BugIds]} : n \in 0..MaxBench}

(* ----------------------- filter_experiment_list ----------------------- *)
\* what one iteration of the loop body does with the item at bug_index
Verdict_end_off_by_one(list, bug_index) ==
    LET experiment_item == list[bug_index]
        subject == experiment_item.subject
        bug_name == experiment_item.bug_id
    IN  IF bug_id_list # {} /\ bug_name \notin bug_id_list THEN "continue"
        ELSE IF bug_index_list # {} /\ bug_index \notin bug_index_list THEN "continue"
        ELSE IF skip_index_list # {} /\ Str(bug_index) \in skip_index_list THEN "continue"
        ELSE IF start_index # 0 /\ bug_index < start_index THEN "continue"
        ELSE IF subject_name # "" /\ subject_name # subject THEN "continue"
        ELSE IF end_index # 0 /\ bug_index >= end_index THEN "break"
        ELSE "append"

Verdict(list, bug_index) ==
    LET experiment_item == list[bug_index]
        subject == experiment_item.subject
        bug_name == experiment_item.bug_id
    IN  IF bug_id_list # {} /\ bug_name \notin bug_id_list THEN "continue"
        ELSE IF bug_index_list # {} /\ bug_index \notin bug_index_list THEN "continue"
        ELSE IF skip_index_list # {} /\ Str(bug_index) \in skip_index_list THEN "continue"
        ELSE IF start_index # 0 /\ bug_index < start_index THEN "continue"
        ELSE IF subject_name # "" /\ subject_name # subject THEN "continue"
        ELSE IF end_index # 0 /\ bug_index > end_index THEN "break"
        ELSE "append"

\* the for loop from bug_index on; seen is the set of indices visited so far
RECURSIVE FilterLoop(_, _, _, _)
FilterLoop(list, bug_index, acc, seen) ==
    IF bug_index > Len(list)
    THEN [filtered_list |-> acc, examined |-> seen]
    ELSE LET v == Verdict(list, bug_index)
             seen2 == seen \cup {bug_index}
         IN  IF v = "break" THEN [filtered_list |-> acc, examined |-> seen2]
             ELSE IF v = "continue"
                  THEN FilterLoop(list, bug_index + 1, acc, seen2)
                  ELSE FilterLoop(list, bug_index + 1,
                                  Append(acc, list[bug_index]), seen2)

FilterScan_from_second(list) == FilterLoop(list, 2, <<>>, {})

FilterScan(list) == FilterLoop(list, 1, <<>>, {})

filter_experiment_list(list) == FilterScan(list).filtered_list

(* ----------------------- create_task_identifier ---------------------- *)
\* "-".join(parts)
RECURSIVE Join(_)
Join(parts) ==
    IF Len(parts) = 0 THEN ""
    ELSE IF Len(parts) = 1 THEN parts[1]
    ELSE parts[1] \o "-" \o Join(Tail(parts))

create_task_identifier(benchmark_name, task_profile_id, container_profile_id, experiment_item, tool_name, run_index, tag) ==
    Join(<<benchmark_name,
           IF tag = "" THEN tool_name ELSE tool_name \o "-" \o tag,
           experiment_item.subject,
           experiment_item.bug_id,
           task_profile_id,
           container_profile_id,
           run_index>>)

(* ------------------------------ objects ------------------------------- *)
\* every mutable object is a heap cell: two references denote the same
\* object, and see each other's writes, exactly when they are equal; name is
\* the id / name field, "absent" a key the dictionary does not hold;
\* cpu_count is <<>> when the profile declares no CPU count, <<n>> otherwise
Obj(k, n) == [kind |-> k, name |-> n, tool_params |-> "absent",
              tool_tag |-> "absent", cpu_count |-> <<>>]

\* configuration.load_profiles / load_benchmark / load_tool results
task_profiles == [id \in {"P1", "P2"} |-> IF id = "P1" THEN 1 ELSE 2]
container_profiles == [id \in {"C1", "C2"} |-> IF id = "C1" THEN 3 ELSE 4]
benchmark == 5
LoadedHeap == <<Obj("task_profile", "P1"), Obj("task_profile", "P2"),
                Obj("container_profile", "C1"),
                [Obj("container_profile", "C2") EXCEPT !.cpu_count = <<4>>],
                Obj("benchmark", "bm"), Obj("tool", "T1"), Obj("tool", "T2")>>
ToolListChoices == {<<>>, <<6>>, <<6, 7>>}
ToolParams == "params"

SeqsUpTo(S, n) == UNION {[1..k -> S] : k \in 0..n}

\* copy.deepcopy: a fresh object with the same contents
deepcopy(h, r) == Append(h, h[r])
NewRef_template(h) == 1

NewRef(h) == Len(h) + 1

(* -------------------------- construct_task_list ----------------------- *)
\* a for loop positioned after element i of seq has another element
HasNext_drop_last(i, seq) == i + 1 < Len(seq)

HasNext(i, seq) == i < Len(seq)

GenStart == [level |-> "tp", tp_i |-> 0, cp_i |-> 0, ex_i |-> 0, tool_i |-> 0,
             task_profile |-> 0, container_profile |-> 0, filtered |-> <<>>]

\* TaskConfig(task_type, ..., values.only_setup, ..., values.cpus, values.runs)
TaskConfigOf == [task_type |-> "repair", only_setup |-> only_setup, cpus |-> cpus, runs |-> runs]

\* the generator is left by an uncaught KeyError of a profile lookup
KeyError(g, h) ==
    [gen |-> [g EXCEPT !.level = "done"], heap |-> h, out |-> <<>>, raised |-> TRUE]

\* run the generator body from its current position to the next yield (out
\* holds the yielded pair) or to the end of the function (out is empty)
RECURSIVE Resume(_, _)
Resume(g, h) ==
    IF g.level = "done" THEN [gen |-> g, heap |-> h, out |-> <<>>, raised |-> FALSE]
    ELSE IF g.level = "tp" THEN
        IF HasNext(g.tp_i, task_profile_id_list)
        THEN IF task_profile_id_list[g.tp_i + 1] \notin DOMAIN task_profiles
             THEN KeyError(g, h) ELSE
             LET template == task_profiles[task_profile_id_list[g.tp_i + 1]]
                 copy == NewRef(h)
                 h1 == deepcopy(h, template)
                 h2 == [h1 EXCEPT ![copy].tool_params = ToolParams,
                                  ![copy].tool_tag = tool_tag]
             IN  Resume([g EXCEPT !.tp_i = g.tp_i + 1, !.task_profile = copy,
                                  !.cp_i = 0, !.level = "cp"], h2)
        ELSE [gen |-> [g EXCEPT !.level = "done"], heap |-> h, out |-> <<>>,
              raised |-> FALSE]
    ELSE IF g.level = "cp" THEN
        IF HasNext(g.cp_i, container_profile_id_list)
        THEN IF container_profile_id_list[g.cp_i + 1] \notin DOMAIN container_profiles
             THEN KeyError(g, h) ELSE
             LET template ==
                     container_profiles[container_profile_id_list[g.cp_i + 1]]
                 copy == NewRef(h)
             IN  Resume([g EXCEPT !.cp_i = g.cp_i + 1,
                                  !.container_profile = copy,
                                  !.filtered = filter_experiment_list(experiment_list),
                                  !.ex_i = 0, !.level = "ex"],
                        deepcopy(h, template))
        ELSE Resume([g EXCEPT !.level = "tp"], h)
    ELSE IF g.level = "ex" THEN
        IF HasNext(g.ex_i, g.filtered)
        THEN IF tool_list = <<>>
             \* with no tool the body of this loop does nothing for any item
             THEN Resume([g EXCEPT !.ex_i = Len(g.filtered), !.level = "cp"], h)
             ELSE Resume([g EXCEPT !.ex_i = g.ex_i + 1, !.tool_i = 0,
                                   !.level = "tool"], h)
        ELSE Resume([g EXCEPT !.level = "cp"], h)
    ELSE
        IF HasNext(g.tool_i, tool_list)
        THEN LET experiment_item == g.filtered[g.ex_i]
                 b == NewRef(h)
                 h1 == deepcopy(h, benchmark)
                 t == NewRef(h1)
                 h2 == deepcopy(h1, tool_list[g.tool_i + 1])
             IN  [gen |-> [g EXCEPT !.tool_i = g.tool_i + 1],
                  heap |-> h2,
                  out |-> <<[task_config |-> TaskConfigOf,
                             benchmark |-> b,
                             tool |-> t,
                             experiment_item |-> experiment_item,
                             task_profile |-> g.task_profile,
                             container_profile |-> g.container_profile,
                             bug_index |-> experiment_item.id]>>,
                  raised |-> FALSE]
        ELSE Resume([g EXCEPT !.level = "ex"], h)

(* ------------------------- parts not exercised ------------------------ *)
FilterIdle ==
    /\ flt_pc = "idle"
    /\ filtered_list = <<>>
    /\ examined = {}
    /\ refiltered = <<>>

EnumIdle ==
    /\ task_profile_id_list = <<>>
    /\ container_profile_id_list = <<>>
    /\ tool_list = <<>>
    /\ tool_tag = ""
    /\ heap = <<>>
    /\ gen = GenStart
    /\ yielded = <<>>

IdIdle ==
    /\ id_pc = "idle"
    /\ id_args = <<>>
    /\ id_keys = <<>>

NoFrame == [call_site |-> 0, iteration |-> 0, index |-> 0, run_index |-> 0,
            task |-> <<>>]

MainIdle ==
    /\ pc = "idle"
    /\ args = <<>>
    /\ use_parallel = FALSE
    /\ runs = 1
    /\ only_setup = FALSE
    /\ cpus = 1
    /\ is_error = FALSE
    /\ iteration = 0
    /\ pt = NoFrame
    /\ propagate = FALSE
    /\ log = <<>>

(* ------------------------- enumeration machine ------------------------ *)
\* benchmarks whose bug ids alternate, so that bug_id_list keeps every other item
EnumBenchmarks ==
    {[i \in 1..n |-> Item(i, "s1", IF i % 2 = 1 THEN "b1" ELSE "b2")] :
         n \in 0..MaxBench}

\* the ids were checked against the maps by get_task_profiles and
\* get_container_profiles before construct_task_list is called
InitEnum ==
    /\ machine = "enum"
    /\ experiment_list \in EnumBenchmarks
    /\ bug_id_list \in {{}, {"b1"}}
    /\ bug_index_list = {}
    /\ skip_index_list = {}
    /\ start_index = 0
    /\ end_index = 0
    /\ subject_name = ""
    /\ FilterIdle
    /\ task_profile_id_list \in SeqsUpTo(DOMAIN task_profiles, MaxTaskProfiles)
    /\ container_profile_id_list \in
           SeqsUpTo(DOMAIN container_profiles, MaxContainerProfiles)
    /\ tool_list \in ToolListChoices
    /\ tool_tag \in {"", "x"}
    /\ heap = LoadedHeap
    /\ gen = GenStart
    /\ yielded = <<>>
    /\ IdIdle
    /\ MainIdle

\* next(tasks) returning a pair
Yield ==
    /\ machine = "enum"
    /\ LET r == Resume(gen, heap)
       IN  /\ r.out # <<>>
           /\ gen' = r.gen
           /\ heap' = r.heap
           /\ yielded' = yielded \o r.out
    /\ UNCHANGED <<machine, filterCfg, filterVars, enumCfg, idVars, mainVars>>

\* next(tasks) raising StopIteration
Exhaust ==
    /\ machine = "enum"
    /\ gen.level # "done"
    /\ LET r == Resume(gen, heap)
       IN  /\ r.out = <<>>
           /\ gen' = r.gen
           /\ heap' = r.heap
    /\ UNCHANGED <<machine, filterCfg, filterVars, enumCfg, yielded, idVars, mainVars>>

NextEnum == Yield \/ Exhaust

SpecEnum == InitEnum /\ [][NextEnum]_vars

(* ------------------------ C4: product and order ----------------------- *)
NProduct ==
    Len(task_profile_id_list) * Len(container_profile_id_list)
        * Len(filter_experiment_list(experiment_list)) * Len(tool_list)

\* the combination at 1-based position k of the nested order
Combination(k) ==
    LET nT == Len(tool_list)
        flt == filter_experiment_list(experiment_list)
        nE == Len(flt)
        nC == Len(container_profile_id_list)
        k0 == k - 1
    IN  <<task_profile_id_list[(k0 \div (nT * nE * nC)) + 1],
          container_profile_id_list[((k0 \div (nT * nE)) % nC) + 1],
          flt[((k0 \div nT) % nE) + 1],
          heap[tool_list[(k0 % nT) + 1]].name>>

Signature(task) ==
    <<heap[task.task_profile].name, heap[task.container_profile].name,
      task.experiment_item, heap[task.tool].name>>

\* C4: the pairs come out one per combination, task profiles outermost, then
\* container profiles, then filtered items, then tools; the stream ends after
\* |task ids| x |container ids| x |filtered items| x |tools| pairs.
C4_ProductOrder ==
    machine = "enum" =>
        /\ Len(yielded) <= NProduct
        /\ \A k \in 1..Len(yielded) : Signature(yielded[k]) = Combination(k)
        /\ gen.level = "done" => Len(yielded) = NProduct

C4_Witness ==
    /\ machine = "enum"
    /\ gen.level = "done"
    /\ task_profile_id_list = <<"P1", "P2">>
    /\ container_profile_id_list = <<"C1">>
    /\ Len(filter_experiment_list(experiment_list)) = 2
    /\ Len(tool_list) = 2
    /\ Len(yielded) = 8

(* --------------------------- C5: no aliasing -------------------------- *)
Components == {"benchmark", "tool", "task_profile", "container_profile"}

\* C5: two distinct yielded tasks share none of their mutable components,
\* so a write made through one task is never seen through another.
C5_NoAliasing ==
    machine = "enum" =>
        \A i, j \in 1..Len(yielded) : i # j =>
            \A c \in Components : yielded[i][c] # yielded[j][c]

(* --------------------------- filter machine --------------------------- *)
FilterCfgInit ==
    /\ experiment_list \in BenchmarkLists
    /\ bug_id_list \in BugIdListChoices
    /\ bug_index_list \in BugIndexListChoices
    /\ skip_index_list \in SkipIndexListChoices
    /\ start_index \in 0..MaxStart
    /\ end_index \in 0..MaxEnd
    /\ subject_name \in SubjectNameChoices

InitFilter ==
    /\ machine = "filter"
    /\ FilterCfgInit
    /\ EnumIdle
    /\ IdIdle
    /\ MainIdle
    /\ flt_pc = "start"
    /\ filtered_list = <<>>
    /\ examined = {}
    /\ refiltered = <<>>

\* a call filter_experiment_list(benchmark)
Filter ==
    /\ flt_pc = "start"
    /\ LET r == FilterScan(experiment_list)
       IN  /\ filtered_list' = r.filtered_list
           /\ examined' = r.examined
    /\ flt_pc' = "filtered"
    /\ UNCHANGED <<machine, filterCfg, refiltered, enumCfg, enumVars, idVars, mainVars>>

\* the same filter applied to the list it returned
Refilter ==
    /\ flt_pc = "filtered"
    /\ refiltered' = filter_experiment_list(filtered_list)
    /\ flt_pc' = "refiltered"
    /\ UNCHANGED <<machine, filterCfg, filtered_list, examined, enumCfg, enumVars, idVars, mainVars>>

NextFilter == Filter \/ Refilter

SpecFilter == InitFilter /\ [][NextFilter]_vars

(* -------------------------- identifier machine ------------------------ *)
IdSubjects == {"s1", "s1-b1"}
IdBugIds == {"b1", "b1-b1"}
IdToolNames == {"T1", "T2"}
IdProfileIds == {"P1", "P2"}

RunArgs == [tool : IdToolNames, subject : IdSubjects, bug_id : IdBugIds,
            task_profile : IdProfileIds, container_profile : {"C1"},
            run_index : 0..MaxRunIndex]

InitId ==
    /\ machine = "id"
    /\ experiment_list = <<>>
    /\ bug_id_list = {}
    /\ bug_index_list = {}
    /\ skip_index_list = {}
    /\ start_index = 0
    /\ end_index = 0
    /\ subject_name = ""
    /\ FilterIdle
    /\ EnumIdle
    /\ id_pc = "start"
    /\ id_args \in [tag : {"", "x"}, a : RunArgs, b : RunArgs]
    /\ id_keys = <<>>
    /\ MainIdle

KeyOf(r, tag) ==
    create_task_identifier("bm", r.task_profile, r.container_profile,
                           [subject |-> r.subject, bug_id |-> r.bug_id],
                           r.tool, Str(r.run_index), tag)

\* the identifiers of the two runs are computed
MakeKeys ==
    /\ id_pc = "start"
    /\ id_keys' = <<KeyOf(id_args.a, id_args.tag), KeyOf(id_args.b, id_args.tag)>>
    /\ id_pc' = "made"
    /\ UNCHANGED <<machine, filterCfg, filterVars, enumCfg, enumVars, id_args, mainVars>>

NextId == MakeKeys

SpecId == InitId /\ [][NextId]_vars

\* C9: two identifiers of one enumeration are equal only if all seven
\* components are equal, also when a component contains the separator.
C9_Injective ==
    id_pc = "made" =>
        (id_keys[1] = id_keys[2] => id_args.a = id_args.b)

(* ------------------------------- main --------------------------------- *)
Event(k, t, r, n, str, f) ==
    [kind |-> k, task |-> t, run |-> r, num |-> n, str |-> str, flag |-> f]

Signals == {"SIGALRM", "SIGTERM"}

\* the exception raised by the handler installed for the signal
Raised_always_exception(sig) == "Exception"

Raised(sig) == IF sig = "SIGTERM" THEN "SystemExit" ELSE "Exception"

\* utilities.error_exit leaves by raising; which exception is not fixed here
ErrorExitRaises == {"SystemExit", "Exception"}

\* the except clause of main that catches an exception raised in the try block
Handler(exc) == IF exc = "SystemExit" THEN "except_exit" ELSE "except_error"

BeforeTry == {"bootstrap"}
InTry == {"try", "config_file", "cli", "mode", "pt_next", "pt_configs",
          "pt_prepare_experiment", "pt_prepare_tool", "pt_runs", "pt_run"}
InExcept == {"except_exit", "except_error"}
InFinally == {"fin_cursor", "fin_notify", "fin_end"}

NumSignals == Len(SelectSeq(log, LAMBDA e : e.kind \in Signals))

ValidIds_first_only ==
    /\ task_profile_id_list[1] \in DOMAIN task_profiles
    /\ container_profile_id_list[1] \in DOMAIN container_profiles

ValidIds ==
    /\ \A i \in 1..Len(task_profile_id_list) :
           task_profile_id_list[i] \in DOMAIN task_profiles
    /\ \A i \in 1..Len(container_profile_id_list) :
           container_profile_id_list[i] \in DOMAIN container_profiles

MainArgs ==
    {a \in [config_file : BOOLEAN, task_type : BOOLEAN, parallel : BOOLEAN,
            parallel_mode : BOOLEAN] :
        IF a.config_file THEN a.task_type ELSE ~a.parallel_mode}

MainBenchmarks == {<<Item(1, "s1", "b1"), Item(2, "s2", "b2")>>}
MainTaskProfileLists == {<<"P1", "P2">>, <<"P1", "P9">>}
MainContainerProfileLists == {<<"C1">>, <<"C2">>, <<"C9">>}
\* values.cpus as left by the command line or the configuration file
MainCpus == {1, 2}
MainToolLists == {<<6, 7>>}

\* the state once main has installed both signal handlers (line 283)
InitMain ==
    /\ machine = "main"
    /\ experiment_list \in MainBenchmarks
    /\ bug_id_list = {}
    /\ bug_index_list = {}
    /\ skip_index_list = {}
    /\ start_index = 0
    /\ end_index = 0
    /\ subject_name = ""
    /\ FilterIdle
    /\ IdIdle
    /\ args \in MainArgs
    /\ task_profile_id_list \in MainTaskProfileLists
    /\ container_profile_id_list \in MainContainerProfileLists
    /\ args.config_file => ValidIds
    /\ tool_list \in MainToolLists
    /\ tool_tag = "x"
    /\ heap = LoadedHeap
    /\ gen = GenStart
    /\ yielded = <<>>
    /\ pc = "bootstrap"
    /\ use_parallel = FALSE
    /\ runs \in 0..MaxRuns
    /\ only_setup \in BOOLEAN
    /\ cpus \in MainCpus
    /\ is_error = FALSE
    /\ iteration = 0
    /\ pt = NoFrame
    /\ propagate = FALSE
    /\ log = <<>>

streamVars == <<gen, heap, yielded>>
fixedVars == <<machine, filterCfg, filterVars, enumCfg, idVars, args>>

\* lines 284-289; read_arg_list copies the command-line switch into values
Bootstrap ==
    /\ pc = "bootstrap"
    /\ use_parallel' = args.parallel
    /\ pc' = "try"
    /\ UNCHANGED <<fixedVars, streamVars, runs, only_setup, cpus, is_error, iteration,
                   pt, propagate, log>>

\* lines 291-296
EnterTry ==
    /\ pc = "try"
    /\ pc' = IF args.config_file THEN "config_file" ELSE "cli"
    /\ UNCHANGED <<fixedVars, streamVars, use_parallel, runs, only_setup, cpus,
                   is_error, iteration, pt, propagate, log>>

\* TaskProcessor.execute(config): the task stream of the configuration file,
\* a one-shot stream with the enumeration of construct_task_list
TaskProcessorExecute == GenStart

\* lines 297-300: process_config_file, TaskProcessor.execute and the call
\* process_tasks(tasks)
ProcessConfigFile ==
    /\ pc = "config_file"
    /\ use_parallel' = args.parallel_mode
    /\ gen' = TaskProcessorExecute
    /\ pt' = [NoFrame EXCEPT !.call_site = 1]
    /\ pc' = "pt_next"
    /\ UNCHANGED <<fixedVars, heap, yielded, runs, only_setup, cpus, is_error,
                   iteration, propagate, log>>

\* lines 302-305
CliNoTaskType ==
    /\ pc = "cli"
    /\ ~args.task_type
    /\ \E exc \in ErrorExitRaises : pc' = Handler(exc)
    /\ UNCHANGED <<fixedVars, streamVars, use_parallel, runs, only_setup, cpus,
                   is_error, iteration, pt, propagate, log>>

\* get_task_profiles / get_container_profiles meeting an unknown id
CliInvalidProfile ==
    /\ pc = "cli"
    /\ args.task_type
    /\ ~ValidIds
    /\ \E exc \in ErrorExitRaises : pc' = Handler(exc)
    /\ UNCHANGED <<fixedVars, streamVars, use_parallel, runs, only_setup, cpus,
                   is_error, iteration, pt, propagate, log>>

\* lines 306-312: the generator object is created, its body has not run yet
CliConstruct ==
    /\ pc = "cli"
    /\ args.task_type
    /\ ValidIds
    /\ pc' = "mode"
    /\ UNCHANGED <<fixedVars, streamVars, use_parallel, runs, only_setup, cpus,
                   is_error, iteration, pt, propagate, log>>

\* lines 314-319 on an interpreter older than 3.10
ParallelUnsupported ==
    /\ pc = "mode"
    /\ use_parallel
    /\ \E exc \in ErrorExitRaises : pc' = Handler(exc)
    /\ UNCHANGED <<fixedVars, streamVars, use_parallel, runs, only_setup, cpus,
                   is_error, iteration, pt, propagate, log>>

\* what is left of the stream
RECURSIVE Drain(_, _, _)
Drain(g, h, acc) ==
    LET r == Resume(g, h)
    IN  IF r.out = <<>>
        THEN [gen |-> r.gen, heap |-> r.heap, out |-> acc, raised |-> r.raised]
        ELSE Drain(r.gen, r.heap, acc \o r.out)

\* line 320: the worker pool takes the stream and returns the final count
SetupUI ==
    /\ pc = "mode"
    /\ use_parallel
    /\ LET d == Drain(gen, heap, <<>>)
       IN  /\ gen' = d.gen
           /\ heap' = d.heap
           /\ yielded' = yielded \o d.out
           /\ iteration' = Len(d.out) * runs
           /\ log' = Append(log, Event("setup_ui", 0, 0, Len(d.out), "", FALSE))
           /\ pc' = IF d.raised THEN Handler("Exception") ELSE "fin_cursor"
    /\ UNCHANGED <<fixedVars, use_parallel, runs, only_setup, cpus, is_error, pt,
                   propagate>>

\* line 322
CallProcessTasks ==
    /\ pc = "mode"
    /\ ~use_parallel
    /\ pt' = [NoFrame EXCEPT !.call_site = 2]
    /\ pc' = "pt_next"
    /\ UNCHANGED <<fixedVars, streamVars, use_parallel, runs, only_setup, cpus,
                   is_error, iteration, propagate, log>>

(* ---------------------------- process_tasks --------------------------- *)
\* line 358 binding the next pair: iteration is the enumerate index
PtNextTask ==
    /\ pc = "pt_next"
    /\ LET r == Resume(gen, heap)
       IN  /\ r.out # <<>>
           /\ gen' = r.gen
           /\ heap' = r.heap
           /\ yielded' = yielded \o r.out
           /\ pt' = [pt EXCEPT !.iteration = pt.index, !.index = pt.index + 1,
                               !.run_index = 0, !.task = r.out]
           /\ log' = Append(log, Event("task", Len(yielded) + 1, 0, 0, "", FALSE))
    /\ pc' = "pt_configs"
    /\ UNCHANGED <<fixedVars, use_parallel, runs, only_setup, cpus, is_error,
                   iteration, propagate>>

\* line 358 when the stream is exhausted: process_tasks returns (an exception
\* leaving the generator leaves process_tasks as well)
PtReturn ==
    /\ pc = "pt_next"
    /\ LET r == Resume(gen, heap)
       IN  /\ r.out = <<>>
           /\ gen' = r.gen
           /\ heap' = r.heap
           /\ pc' = IF r.raised THEN Handler("Exception")
                    ELSE IF pt.call_site = 1 THEN "mode" ELSE "fin_cursor"
    /\ UNCHANGED <<fixedVars, yielded, use_parallel, runs, only_setup, cpus, is_error,
                   iteration, pt, propagate, log>>

CurTask == pt.task[1]
CurNo == Len(yielded)

\* lines 367-373: process_configs projects the TaskConfig onto values
PtConfigs_skip_prepare ==
    /\ pc = "pt_configs"
    /\ only_setup' = CurTask.task_config.only_setup
    /\ cpus' = CurTask.task_config.cpus
    /\ runs' = CurTask.task_config.runs
    /\ log' = Append(log, Event("configs", CurNo, 0, 0, "", FALSE))
    /\ pc' = "pt_runs"
    /\ UNCHANGED <<fixedVars, streamVars, use_parallel, is_error, iteration, pt,
                   propagate>>

PtConfigs ==
    /\ pc = "pt_configs"
    /\ only_setup' = CurTask.task_config.only_setup
    /\ cpus' = CurTask.task_config.cpus
    /\ runs' = CurTask.task_config.runs
    /\ log' = Append(log, Event("configs", CurNo, 0, 0, "", FALSE))
    /\ pc' = "pt_prepare_experiment"
    /\ UNCHANGED <<fixedVars, streamVars, use_parallel, is_error, iteration, pt,
                   propagate>>

\* ",".join(...) of line 375
RECURSIVE CommaJoin(_)
CommaJoin(parts) ==
    IF Len(parts) = 0 THEN ""
    ELSE IF Len(parts) = 1 THEN parts[1]
    ELSE parts[1] \o "," \o CommaJoin(Tail(parts))

\* lines 379-381: container_profile.get(KEY_CONTAINER_CPU_COUNT, values.cpus)
CpuCount_ignore_profile(container_profile) == cpus

CpuCount(container_profile) ==
    IF container_profile.cpu_count = <<>> THEN cpus
    ELSE container_profile.cpu_count[1]

\* lines 375-384: cpu = ",".join(map(str, range(count)))
CpuSet(container_profile) ==
    CommaJoin([i \in 1..CpuCount(container_profile) |-> Str(i - 1)])

\* line 385: task.prepare_experiment(benchmark, experiment_item, cpu)
PtPrepareExperiment ==
    /\ pc = "pt_prepare_experiment"
    /\ log' = Append(log, Event("prepare_experiment", CurNo, 0, 0,
                                CpuSet(heap[CurTask.container_profile]), FALSE))
    /\ pc' = "pt_prepare_tool"
    /\ UNCHANGED <<fixedVars, streamVars, use_parallel, runs, only_setup, cpus,
                   is_error, iteration, pt, propagate>>

\* lines 387-405
PtPrepareTool ==
    /\ pc = "pt_prepare_tool"
    /\ log' = Append(log, Event("prepare_tool", CurNo, 0, 0, "", FALSE))
    /\ pt' = [pt EXCEPT !.run_index = 0]
    /\ pc' = "pt_runs"
    /\ UNCHANGED <<fixedVars, streamVars, use_parallel, runs, only_setup, cpus,
                   is_error, iteration, propagate>>

\* task_profile.get(KEY_TOOL_TAG, "")
TagOf(profile) == IF profile.tool_tag = "absent" THEN "" ELSE profile.tool_tag

RunKey_one_based ==
    create_task_identifier(heap[CurTask.benchmark].name,
                           heap[CurTask.task_profile].name,
                           heap[CurTask.container_profile].name,
                           CurTask.experiment_item,
                           heap[CurTask.tool].name,
                           Str(pt.run_index + 1),
                           TagOf(heap[CurTask.task_profile]))

RunKey ==
    create_task_identifier(heap[CurTask.benchmark].name,
                           heap[CurTask.task_profile].name,
                           heap[CurTask.container_profile].name,
                           CurTask.experiment_item,
                           heap[CurTask.tool].name,
                           Str(pt.run_index),
                           TagOf(heap[CurTask.task_profile]))

\* lines 407-423: the loop binds run_index, bumps the local iteration,
\* announces the run and builds its key
Announce ==
    <<Event("announce", CurNo, pt.run_index, pt.iteration + 1, "", FALSE),
      Event("key", CurNo, pt.run_index, 0, RunKey, FALSE)>>

\* line 425: the guard "if not values.only_setup" fails
SkipsRun_never == FALSE

SkipsRun == only_setup

\* lines 407-435 with only_setup unset: task.run is entered
PtStartRun ==
    /\ pc = "pt_runs"
    /\ pt.run_index < CurTask.task_config.runs
    /\ ~SkipsRun
    /\ pt' = [pt EXCEPT !.iteration = pt.iteration + 1]
    /\ log' = log \o Announce
                  \o <<Event("run", CurNo, pt.run_index, 0, RunKey, FALSE)>>
    /\ pc' = "pt_run"
    /\ UNCHANGED <<fixedVars, streamVars, use_parallel, runs, only_setup, cpus,
                   is_error, iteration, propagate>>

\* lines 407-425 with only_setup set: the run is skipped
PtSkipRun ==
    /\ pc = "pt_runs"
    /\ pt.run_index < CurTask.task_config.runs
    /\ SkipsRun
    /\ pt' = [pt EXCEPT !.iteration = pt.iteration + 1,
                        !.run_index = pt.run_index + 1]
    /\ log' = log \o Announce
    /\ UNCHANGED <<fixedVars, streamVars, pc, use_parallel, runs, only_setup, cpus,
                   is_error, iteration, propagate>>

\* task.run returns
PtRunReturn ==
    /\ pc = "pt_run"
    /\ pt' = [pt EXCEPT !.run_index = pt.run_index + 1]
    /\ log' = Append(log, Event("run_returned", CurNo, pt.run_index, 0, "", FALSE))
    /\ pc' = "pt_runs"
    /\ UNCHANGED <<fixedVars, streamVars, use_parallel, runs, only_setup, cpus,
                   is_error, iteration, propagate>>

\* task.run raises: nothing in process_tasks catches it
PtRunRaise_retry ==
    /\ pc = "pt_run"
    /\ log' = Append(log, Event("run_raised", CurNo, pt.run_index, 0, "", FALSE))
    /\ pc' = "pt_runs"
    /\ UNCHANGED <<fixedVars, streamVars, use_parallel, runs, only_setup, cpus,
                   is_error, iteration, pt, propagate>>

PtRunRaise ==
    /\ pc = "pt_run"
    /\ log' = Append(log, Event("run_raised", CurNo, pt.run_index, 0, "", FALSE))
    /\ pc' = Handler("Exception")
    /\ UNCHANGED <<fixedVars, streamVars, use_parallel, runs, only_setup, cpus,
                   is_error, iteration, pt, propagate>>

\* range(task_config.runs) is exhausted
PtEndRuns ==
    /\ pc = "pt_runs"
    /\ pt.run_index >= CurTask.task_config.runs
    /\ pc' = "pt_next"
    /\ UNCHANGED <<fixedVars, streamVars, use_parallel, runs, only_setup, cpus,
                   is_error, iteration, pt, propagate, log>>

(* ------------------------ except / finally of main -------------------- *)
\* lines 324-325
PassExit ==
    /\ pc = "except_exit"
    /\ pc' = "fin_cursor"
    /\ UNCHANGED <<fixedVars, streamVars, use_parallel, runs, only_setup, cpus,
                   is_error, iteration, pt, propagate, log>>

\* lines 326-331
HandleError ==
    /\ pc = "except_error"
    /\ is_error' = TRUE
    /\ log' = Append(log, Event("runtime_error", 0, 0, 0, "", TRUE))
    /\ pc' = "fin_cursor"
    /\ UNCHANGED <<fixedVars, streamVars, use_parallel, runs, only_setup, cpus,
                   iteration, pt, propagate>>

\* lines 333-336
FinCursor ==
    /\ pc = "fin_cursor"
    /\ pc' = "fin_notify"
    /\ UNCHANGED <<fixedVars, streamVars, use_parallel, runs, only_setup, cpus,
                   is_error, iteration, pt, propagate, log>>

\* lines 337-338
FinNotify ==
    /\ pc = "fin_notify"
    /\ log' = IF ~args.parallel
              THEN Append(log, Event("notification_end", 0, 0, 0, "", is_error))
              ELSE log
    /\ pc' = "fin_end"
    /\ UNCHANGED <<fixedVars, streamVars, use_parallel, runs, only_setup, cpus,
                   is_error, iteration, pt, propagate>>

\* line 339, then main returns or the pending exception leaves main
EmitEnd ==
    /\ pc = "fin_end"
    /\ log' = Append(log, Event("emitter_end", 0, 0, iteration, "", is_error))
    /\ pc' = IF propagate THEN "crashed" ELSE "done"
    /\ UNCHANGED <<fixedVars, streamVars, use_parallel, runs, only_setup, cpus,
                   is_error, iteration, pt, propagate>>

\* SIGALRM or SIGTERM is delivered and its handler raises where main stands
Signal ==
    /\ machine = "main"
    /\ pc \in BeforeTry \cup InTry \cup InExcept \cup InFinally
    /\ NumSignals < MaxSignals
    /\ \E sig \in Signals :
           /\ log' = Append(log, Event(sig,
                                       IF pc = "pt_run" THEN CurNo ELSE 0,
                                       IF pc = "pt_run" THEN pt.run_index ELSE 0,
                                       0, pc, FALSE))
           /\ pc' = IF pc \in InTry THEN Handler(Raised(sig))
                    ELSE IF pc \in InExcept THEN "fin_cursor"
                    ELSE "crashed"
    /\ propagate' = IF pc \in InExcept THEN TRUE ELSE propagate
    /\ UNCHANGED <<fixedVars, streamVars, use_parallel, runs, only_setup, cpus,
                   is_error, iteration, pt>>

NextMain ==
    \/ Bootstrap \/ EnterTry \/ ProcessConfigFile
    \/ CliNoTaskType \/ CliInvalidProfile \/ CliConstruct
    \/ ParallelUnsupported \/ SetupUI \/ CallProcessTasks
    \/ PtNextTask \/ PtReturn \/ PtConfigs \/ PtPrepareExperiment
    \/ PtPrepareTool \/ PtStartRun \/ PtSkipRun \/ PtRunReturn \/ PtRunRaise
    \/ PtEndRuns
    \/ PassExit \/ HandleError \/ FinCursor \/ FinNotify \/ EmitEnd
    \/ Signal

SpecMain == InitMain /\ [][NextMain]_vars

(* ------------------------- C6: filter contents ------------------------ *)
Passes(list, i) ==
    /\ bug_id_list = {} \/ list[i].bug_id \in bug_id_list
    /\ bug_index_list = {} \/ i \in bug_index_list
    /\ skip_index_list = {} \/ Str(i) \notin skip_index_list
    /\ start_index = 0 \/ i >= start_index
    /\ subject_name = "" \/ list[i].subject = subject_name
    /\ end_index = 0 \/ i <= end_index

RECURSIVE Ascending(_)
Ascending(S) ==
    IF S = {} THEN <<>>
    ELSE LET m == CHOOSE x \in S : \A y \in S : x <= y
         IN  <<m>> \o Ascending(S \ {m})

Kept(list) == Ascending({i \in 1..Len(list) : Passes(list, i)})

\* C6: the returned list holds exactly the items that satisfy every active
\* predicate, each once, in benchmark order; an empty or zero setting
\* excludes nothing.
C6_FilterExact ==
    flt_pc \in {"filtered", "refiltered"} =>
        /\ Len(filtered_list) = Len(Kept(experiment_list))
        /\ \A k \in 1..Len(filtered_list) :
               /\ filtered_list[k] = experiment_list[Kept(experiment_list)[k]]
               /\ filtered_list[k].id = Kept(experiment_list)[k]

C6_Witness ==
    /\ flt_pc = "filtered"
    /\ Len(experiment_list) = 3
    /\ start_index = 2
    /\ end_index = 2
    /\ bug_id_list # {}
    /\ Len(filtered_list) = 1

NoIndexPredicate ==
    /\ bug_index_list = {}
    /\ skip_index_list = {}
    /\ start_index = 0
    /\ end_index = 0

C8_ScanStopsAtEnd ==
    (flt_pc \in {"filtered", "refiltered"} /\ end_index # 0) =>
        \A i \in examined : i <= end_index + 1

(* --------------------- C1: final report exactly once ------------------ *)
Ends == SelectSeq(log, LAMBDA e : e.kind = "emitter_end")

\* C1: on every exit path after the handlers are installed, main has called
\* emitter.end exactly once when it is left.
C1_ReportExactlyOnce ==
    (machine = "main" /\ pc \in {"done", "crashed"}) => Len(Ends) = 1

(* ------------------ C2: a failed run stops nothing -------------------- *)
RunFailure(e) ==
    \/ e.kind = "run_raised"
    \/ e.kind = "SIGALRM" /\ e.str = "pt_run"

\* C2: in sequential mode, when a run fails (task.run raises, or the alarm
\* aborts the run in flight) every run of every task is still attempted
\* and the final report carries is_error = true.
C2_FailureDoesNotStop ==
    ( /\ machine = "main"
      /\ pc = "done"
      /\ ~use_parallel
      /\ ~only_setup
      /\ \E i \in 1..Len(log) : RunFailure(log[i])
      /\ \A i \in 1..Len(log) : log[i].kind \in Signals => RunFailure(log[i]) )
    =>
    ( /\ \A k \in 1..NProduct : \A r \in 0..(runs - 1) :
             \E i \in 1..Len(log) :
                 log[i].kind = "run" /\ log[i].task = k /\ log[i].run = r
      /\ Len(Ends) = 1
      /\ Ends[1].flag )

(* --------------------- C3: termination mid-run ------------------------ *)
StepKinds == {"task", "configs", "prepare_experiment", "prepare_tool",
              "announce", "key", "run", "setup_ui"}

TermMidRun(e) == e.kind = "SIGTERM" /\ e.str = "pt_run"

\* C3: after SIGTERM arrives while task.run is in flight no task or run is
\* started, "Runtime Error" is never emitted, a final report carries
\* is_error = false, and with no further signal the report is emitted once.
C3_TermMidRunStopsCleanly ==
    machine = "main" =>
        \A i \in 1..Len(log) : TermMidRun(log[i]) =>
            /\ \A j \in (i + 1)..Len(log) :
                   /\ log[j].kind \notin StepKinds
                   /\ log[j].kind # "runtime_error"
                   /\ log[j].kind = "emitter_end" => ~log[j].flag
            /\ (NumSignals = 1 /\ pc \in {"done", "crashed"}) =>
                   (pc = "done" /\ Len(Ends) = 1)

C3_Witness ==
    /\ machine = "main"
    /\ pc = "done"
    /\ NumSignals = 1
    /\ \E i \in 1..Len(log) : TermMidRun(log[i]) /\ log[i].task = 1
    /\ NProduct >= 2
    /\ runs = 2
    /\ Len(Ends) = 1
    /\ ~Ends[1].flag

(* ------------------- C10: iteration numbers shown --------------------- *)
\* C10: in sequential mode the iteration numbers announced for successive
\* runs are strictly increasing.
C10_StrictlyIncreasing ==
    (machine = "main" /\ ~use_parallel) =>
        \A i, j \in 1..Len(log) :
            (i < j /\ log[i].kind = "announce" /\ log[j].kind = "announce")
                => log[i].num < log[j].num

(* ------------------- C11: the notifier at shutdown -------------------- *)
Notifications == SelectSeq(log, LAMBDA e : e.kind = "notification_end")

\* C11: when main is left and no signal arrived, notification.end has been
\* invoked exactly once, in sequential and in parallel mode, whether the
\* mode came from the command line or from the configuration file.
C11_NotifiedOnce ==
    (machine = "main" /\ pc \in {"done", "crashed"} /\ NumSignals = 0)
        => Len(Notifications) = 1

(* ---------------------- C12: one dispatch path ------------------------ *)
TaskEvents == SelectSeq(log, LAMBDA e : e.kind = "task")
PoolEvents == SelectSeq(log, LAMBDA e : e.kind = "setup_ui")

\* the stream is built and nothing cuts its consumption short
Undisturbed ==
    /\ pc = "done"
    /\ NumSignals = 0
    /\ args.config_file \/ (args.task_type /\ ValidIds)
    /\ \A i \in 1..Len(log) :
           log[i].kind \notin {"run_raised", "runtime_error"}

\* C12: with parallel mode set no task is executed by process_tasks and the
\* worker pool is handed every task of the stream; with parallel mode unset
\* process_tasks processes every task exactly once.
C12_OneDispatchPath ==
    machine = "main" =>
        /\ use_parallel => Len(TaskEvents) = 0
        /\ (Undisturbed /\ Len(PoolEvents) = 1) => PoolEvents[1].num = NProduct
        /\ (Undisturbed /\ ~use_parallel) =>
               /\ Len(TaskEvents) = NProduct
               /\ \A k \in 1..NProduct : TaskEvents[k].task = k

(* -------------------- C13: unknown profile ids ------------------------ *)
SomeIdAbsent ==
    \/ \E i \in 1..Len(task_profile_id_list) :
           task_profile_id_list[i] \notin {"P1", "P2"}
    \/ \E i \in 1..Len(container_profile_id_list) :
           container_profile_id_list[i] \notin {"C1", "C2"}

\* C13: on the command-line path an id absent from its profile map stops
\* main before the stream yields: nothing is yielded, prepared or run, and
\* no yielded task carries a profile id absent from the maps.
C13_InvalidIdFailsFast ==
    (machine = "main" /\ ~args.config_file) =>
        /\ SomeIdAbsent =>
               /\ yielded = <<>>
               /\ gen = GenStart
               /\ pc \notin (InTry \ {"try", "cli"})
               /\ \A i \in 1..Len(log) : log[i].kind \notin StepKinds
        /\ \A k \in 1..Len(yielded) :
               /\ heap[yielded[k].task_profile].name \in {"P1", "P2"}
               /\ heap[yielded[k].container_profile].name \in {"C1", "C2"}

C13_Witness ==
    /\ machine = "main"
    /\ ~args.config_file
    /\ args.task_type
    /\ task_profile_id_list = <<"P1", "P9">>
    /\ container_profile_id_list = <<"C1">>
    /\ pc = "done"
    /\ yielded = <<>>
    /\ Len(Ends) = 1

(* ------------------------ C14: only-setup ----------------------------- *)
\* the number of events of one kind logged for task k
CountOf(kind, k) ==
    Cardinality({i \in 1..Len(log) : log[i].kind = kind /\ log[i].task = k})

CountRun(k, r) ==
    Cardinality({i \in 1..Len(log) :
                    log[i].kind = "run" /\ log[i].task = k /\ log[i].run = r})

\* C14: with only_setup set task.run is never invoked; with it unset every run
\* index the loop binds is passed to task.run once. Either way each task whose
\* run loop is entered has had its configuration projected and both images
\* prepared, and an execution that nothing cuts short does so for every task
\* and every run index 0..runs-1.
C14_OnlySetupSkipsRuns ==
    machine = "main" =>
        /\ only_setup => \A i \in 1..Len(log) : log[i].kind # "run"
        /\ ~only_setup =>
               \A i \in 1..Len(log) : log[i].kind = "key" =>
                   /\ i < Len(log)
                   /\ log[i + 1].kind = "run"
                   /\ log[i + 1].task = log[i].task
                   /\ log[i + 1].run = log[i].run
        /\ pc \in {"pt_runs", "pt_run"} =>
               /\ CountOf("configs", CurNo) = 1
               /\ CountOf("prepare_experiment", CurNo) = 1
               /\ CountOf("prepare_tool", CurNo) = 1
        /\ (Undisturbed /\ (args.config_file \/ ~use_parallel)) =>
               \A k \in 1..NProduct :
                   /\ CountOf("configs", k) = 1
                   /\ CountOf("prepare_experiment", k) = 1
                   /\ CountOf("prepare_tool", k) = 1
                   /\ CountOf("key", k) = runs
                   /\ \A r \in 0..(runs - 1) :
                          CountRun(k, r) = IF only_setup THEN 0 ELSE 1

C14_Witness ==
    /\ machine = "main"
    /\ Undisturbed
    /\ ~use_parallel
    /\ only_setup
    /\ runs = 2
    /\ NProduct >= 2
    /\ CountOf("prepare_tool", NProduct) = 1
    /\ CountOf("key", NProduct) = 2
    /\ CountOf("run", NProduct) = 0

(* --------------------- C15: templates are kept ------------------------ *)
\* C15: after any prefix of the enumeration every loaded object, the profile
\* templates among them, is as it was loaded, and each yielded task holds
\* copies of the templates that carry the tool parameters and the tool tag.
C15_TemplatesUntouched ==
    machine = "enum" =>
        /\ Len(heap) >= Len(LoadedHeap)
        /\ \A r \in 1..Len(LoadedHeap) : heap[r] = LoadedHeap[r]
        /\ \A k \in 1..Len(yielded) :
               /\ yielded[k].task_profile > Len(LoadedHeap)
               /\ yielded[k].container_profile > Len(LoadedHeap)
               /\ heap[yielded[k].task_profile].tool_params = ToolParams
               /\ heap[yielded[k].task_profile].tool_tag = tool_tag

C15_Witness ==
    /\ machine = "enum"
    /\ gen.level = "done"
    /\ Len(yielded) >= 2
    /\ yielded[1].task_profile # yielded[Len(yielded)].task_profile
    /\ tool_tag = "x"
    /\ heap[task_profiles["P1"]].tool_tag = "absent"

(* --------------------------- C16: CPU set ----------------------------- *)
\* "0", "0,1", "0,1,2", ... : the indices below n in ascending order
RECURSIVE CoresBelow(_)
CoresBelow(n) ==
    IF n = 0 THEN ""
    ELSE IF n = 1 THEN "0"
    ELSE CoresBelow(n - 1) \o "," \o Str(n - 1)

PreparedWith(e) == heap[yielded[e.task].container_profile]

\* C16: the CPU set handed to task.prepare_experiment lists the core indices
\* 0..n-1 in ascending order, comma-separated, n being the CPU count of the
\* task's container profile when it declares one and values.cpus otherwise;
\* a declared count of 4 gives "0,1,2,3", no count with a default of 2 "0,1".
C16_CpuSet ==
    machine = "main" =>
        \A i \in 1..Len(log) : log[i].kind = "prepare_experiment" =>
            /\ PreparedWith(log[i]).name = "C2" =>
                   /\ log[i].str = CoresBelow(4)
                   /\ log[i].str = "0,1,2,3"
            /\ PreparedWith(log[i]).name = "C1" =>
                   /\ log[i].str = CoresBelow(cpus)
                   /\ cpus = 2 => log[i].str = "0,1"

C16_Witness ==
    /\ machine = "main"
    /\ pc = "done"
    /\ cpus = 2
    /\ \E i \in 1..Len(log) :
           /\ log[i].kind = "prepare_experiment"
           /\ PreparedWith(log[i]).cpu_count = <<4>>
           /\ log[i].str = "0,1,2,3"

(* -------------------- C17: the count reported ------------------------- *)
RunsStarted == Len(SelectSeq(log, LAMBDA e : e.kind = "announce"))

\* C17: in sequential mode the iteration count passed to emitter.end is the
\* number of runs process_tasks started.
C17_ReportedIterations ==
    (machine = "main" /\ pc = "done" /\ ~use_parallel /\ Len(Ends) = 1)
        => Ends[1].num = RunsStarted

(* ------------------------ C18: order of steps ------------------------- *)
TaskSteps ==
    SelectSeq(log, LAMBDA e : e.kind \in {"task", "configs", "prepare_experiment",
                                           "prepare_tool", "announce", "key", "run",
                                           "run_returned", "run_raised"})

\* task k + 1 is bound, or run r + 1 of task k is announced
NextUnit(a, b) ==
    \/ b.kind = "task" /\ b.task = a.task + 1 /\ a.run + 1 >= runs
    \/ b.kind = "announce" /\ b.task = a.task /\ b.run = a.run + 1

\* step b of process_tasks comes directly after step a
Follows(a, b) ==
    IF a.kind = "task" THEN b.kind = "configs" /\ b.task = a.task
    ELSE IF a.kind = "configs"
        THEN b.kind = "prepare_experiment" /\ b.task = a.task
    ELSE IF a.kind = "prepare_experiment"
        THEN b.kind = "prepare_tool" /\ b.task = a.task
    ELSE IF a.kind = "prepare_tool"
        THEN \/ b.kind = "announce" /\ b.task = a.task /\ b.run = 0
             \/ b.kind = "task" /\ b.task = a.task + 1 /\ runs = 0
    ELSE IF a.kind = "announce"
        THEN b.kind = "key" /\ b.task = a.task /\ b.run = a.run
    ELSE IF a.kind = "key"
        THEN \/ b.kind = "run" /\ b.task = a.task /\ b.run = a.run
             \/ only_setup /\ NextUnit(a, b)
    ELSE IF a.kind = "run"
        THEN b.kind \in {"run_returned", "run_raised"}
                 /\ b.task = a.task /\ b.run = a.run
    ELSE IF a.kind = "run_returned" THEN NextUnit(a, b)
    ELSE FALSE

\* the three steps before the runs of task k, in their order, in the log
PreparedInOrder(k) ==
    \E c \in 1..Len(log) :
        /\ log[c].kind = "prepare_tool" /\ log[c].task = k
        /\ \E b \in 1..(c - 1) :
               /\ log[b].kind = "prepare_experiment" /\ log[b].task = k
               /\ \E a \in 1..(b - 1) :
                      log[a].kind = "configs" /\ log[a].task = k

\* C18: the steps of process_tasks come in the order configuration
\* projection, experiment image, tool image, runs, task after task: while
\* task.run is in flight both images of its task have been prepared, and the
\* first step of the next task comes only after the last run has ended.
C18_StepOrder ==
    machine = "main" =>
        /\ LET steps == TaskSteps
           IN  /\ steps # <<>> => (steps[1].kind = "task" /\ steps[1].task = 1)
               /\ \A i \in 1..(Len(steps) - 1) : Follows(steps[i], steps[i + 1])
        /\ pc = "pt_run" =>
               /\ PreparedInOrder(CurNo)
               /\ log[Len(log)].kind = "run"
               /\ log[Len(log)].task = CurNo

C18_Witness ==
    /\ machine = "main"
    /\ Undisturbed
    /\ ~use_parallel
    /\ ~only_setup
    /\ runs = 2
    /\ NProduct >= 2
    /\ TaskSteps[Len(TaskSteps)].kind = "run_returned"
    /\ TaskSteps[Len(TaskSteps)].task = NProduct
    /\ TaskSteps[Len(TaskSteps)].run = 1

(* --------------------------- C19: no retry ---------------------------- *)
RunEvents == SelectSeq(log, LAMBDA e : e.kind = "run")

\* C19: whatever signals arrive, no (task, run index) pair is passed to
\* task.run twice.
C19_NoRetry ==
    machine = "main" =>
        LET started == RunEvents
        IN  \A i \in 1..Len(started) : \A j \in (i + 1)..Len(started) :
                \/ started[i].task # started[j].task
                \/ started[i].run # started[j].run

C19_Witness ==
    /\ machine = "main"
    /\ pc \in {"done", "crashed"}
    /\ NumSignals = 2
    /\ \E i \in 1..Len(log) :
           /\ log[i].kind = "SIGALRM"
           /\ log[i].str = "pt_run"
           /\ i > 1
           /\ log[i - 1].kind = "run"
           /\ log[i - 1].task = 2
           /\ log[i - 1].run = 1
    /\ \E i \in 1..Len(log) : log[i].kind = "SIGTERM"

(* --------------------- C20: order of identifiers ---------------------- *)
Keys == SelectSeq(log, LAMBDA e : e.kind = "key")

\* the identifier of run r of the task at position k of the enumeration,
\* flt being the filtered benchmark list (task profiles outermost, then
\* container profiles, then items, then tools)
KeyAt(flt, k, r) ==
    LET nT == Len(tool_list)
        nE == Len(flt)
        nC == Len(container_profile_id_list)
    IN  create_task_identifier(
            heap[benchmark].name,
            task_profile_id_list[((k - 1) \div (nT * nE * nC)) + 1],
            container_profile_id_list[(((k - 1) \div (nT * nE)) % nC) + 1],
            flt[(((k - 1) \div nT) % nE) + 1],
            heap[tool_list[((k - 1) % nT) + 1]].name,
            Str(r), tool_tag)

\* C20: the m-th identifier created is that of run (m - 1) % runs of the task
\* at position (m - 1) \div runs + 1 of the enumeration, and an uninterrupted
\* sequential execution creates runs identifiers for every task. (The text
\* of the identifiers is compared once main is left, when all are logged.)
C20_KeysInEnumerationOrder ==
    machine = "main" =>
        LET keys == Keys
            flt == filter_experiment_list(experiment_list)
        IN  /\ \A m \in 1..Len(keys) :
                   /\ keys[m].task = ((m - 1) \div runs) + 1
                   /\ keys[m].run = (m - 1) % runs
                   /\ pc \in {"done", "crashed"} =>
                          keys[m].str = KeyAt(flt, keys[m].task, keys[m].run)
            /\ (Undisturbed /\ ~use_parallel) => Len(keys) = NProduct * runs

C20_Witness ==
    /\ machine = "main"
    /\ Undisturbed
    /\ ~use_parallel
    /\ runs = 2
    /\ Len(tool_list) = 2
    /\ Len(task_profile_id_list) = 2
    /\ Len(experiment_list) = 2
    /\ Len(Keys) = 16
    /\ Keys[16].run = 1

====
